---- MODULE Spec2Model ----
(***************************************************************************)
(* Print-on-demand vendor clients of the t-shirt bot (Teemill, Printful,   *)
(* Printify, Prodigi): the HTTP session, create_product, list_products and *)
(* the design-tracking sweeps (search_products_by_user, get_all_designs,   *)
(* get_design_stats) built on it.                                          *)
(*                                                                         *)
(* Strings are sequences of one-character strings, so that Python's `in`,  *)
(* startswith and split are computed and not assumed.                      *)
(***************************************************************************)
EXTENDS Integers, Sequences, FiniteSets, TLC

VARIABLES
    vendor,      \* which client class is instantiated
    shape,       \* the response shape the vendor uses for listings
    pageCap,     \* the largest page the vendor serves, whatever limit is asked
    listing,     \* the vendor's products, in the vendor's order
    http,        \* self.session, and the life of every session ever created
    tasks,       \* the coroutines that may run
    task,        \* each coroutine's operation, position and locals
    allDesigns,  \* what the last completed get_all_designs() returned
    hashseed,    \* the process's string-hash seed (PYTHONHASHSEED)
    calls        \* create_product calls made so far

vars == <<vendor, shape, pageCap, listing, http, tasks, task, allDesigns,
          hashseed, calls>>

----------------------------------------------------------------------------
(* Bounds of the model *)

MaxPages == 2       \* listings hold up to MaxPages full pages (plus or minus one item)
MaxSmall == 3       \* and every size up to MaxSmall
SmallPage == 1      \* a vendor that serves one item per page
LargePage == 100    \* a vendor that serves up to a hundred
MaxTasks == 2       \* coroutines in the interleaving specification
MaxSessions == 2    \* sessions created in one run
MaxCalls == 2       \* create_product calls in one run

(* limit = 20 in every sweep *)
Limit == 20

TaskIds == 1..MaxTasks

Min(a, b) == IF a < b THEN a ELSE b

----------------------------------------------------------------------------
(* Python str operations *)

\* sub in s
Contains(s, sub) ==
    \E i \in 0..(Len(s) - Len(sub)) : SubSeq(s, i + 1, i + Len(sub)) = sub

\* s.startswith(p)
StartsWith(s, p) == Len(s) >= Len(p) /\ SubSeq(s, 1, Len(p)) = p

\* the first position at which sep occurs in s, 0 when it does not
Find(s, sep) ==
    IF Contains(s, sep)
    THEN 1 + CHOOSE i \in 0..(Len(s) - Len(sep)) :
                 /\ SubSeq(s, i + 1, i + Len(sep)) = sep
                 /\ \A j \in 0..(i - 1) : SubSeq(s, j + 1, j + Len(sep)) # sep
    ELSE 0

\* s.split(sep), sep not empty (str is the value of s, taken once)
RECURSIVE Split(_, _)
Split(s, sep) ==
    CHOOSE parts \in
        { IF Find(str, sep) = 0
          THEN <<str>>
          ELSE <<SubSeq(str, 1, Find(str, sep) - 1)>>
               \o Split(SubSeq(str, Find(str, sep) + Len(sep), Len(str)), sep) :
            str \in {s} } : TRUE

Underscore == <<"_">>

Marker == <<"d", "i", "s", "c", "o", "r", "d", "_">>

----------------------------------------------------------------------------
(* The values a product's reference field takes in a listing: the key may  *)
(* be missing, its value may be JSON null, or it is a string.              *)

Missing == [kind |-> "missing", val |-> <<>>]
Null == [kind |-> "null", val |-> <<>>]
Str(s) == [kind |-> "str", val |-> s]

U123 == <<"1", "2", "3">>
U789 == <<"7", "8", "9">>
U1234 == <<"1", "2", "3", "4">>
UserIds == {U123, U789, U1234}

\* an id with an underscore, as "user_123" of the clients' tests
UserTest == <<"u", "_", "1">>
CreatorIds == UserIds \cup {UserTest}

Ref_123_456 == Marker \o U123 \o <<"_", "4", "5", "6">>
Ref_789_012 == Marker \o U789 \o <<"_", "0", "1", "2">>
Ref_123_789 == Marker \o U123 \o <<"_", "7", "8", "9">>
Ref_1234_5 == Marker \o U1234 \o <<"_", "5">>
Ref_plain == <<"r", "e", "f", "_", "1">>

\* The listings: a size and a pattern of references, repeated along the listing.
Patterns ==
    { <<Str(Ref_123_456), Str(Ref_789_012), Str(Ref_123_789)>>,
      <<Missing, Str(Ref_123_456), Str(<<>>), Str(Ref_plain)>>,
      <<Str(Ref_1234_5), Null, Str(Ref_123_456)>>,
      <<Str(Ref_plain), Missing>> }

Sizes ==
    (0..MaxSmall) \cup
    { k * Limit + d : k \in 1..MaxPages, d \in {-1, 0, 1} }

MakeListing(n, pat) ==
    IF n = 0 THEN <<>>
    ELSE [i \in 1..n |-> [id |-> i, reference |-> pat[((i - 1) % Len(pat)) + 1]]]

Vendors == {"teemill", "printful", "printify", "prodigi"}

\* Teemill may or may not report a total; Printify answers a bare list or a
\* list wrapped in "data".
Shapes(v) ==
    CASE v = "teemill" -> {"total", "nototal"}
      [] v = "printful" -> {"paging"}
      [] v = "printify" -> {"list", "data"}
      [] v = "prodigi" -> {"orders"}

\* the shape of the vendor's documented listing response
DefaultShape(v) ==
    CASE v = "teemill" -> "total"
      [] v = "printful" -> "paging"
      [] v = "printify" -> "list"
      [] v = "prodigi" -> "orders"

----------------------------------------------------------------------------
(* The vendor's answer to a listing request *)

\* The first item (0-based) of the page a cursor names: an offset, or for
\* Printify a page number starting at 1.
PageStart(v, served, cursor) ==
    IF v = "printify" THEN (cursor - 1) * served ELSE cursor

VendorPage(v, items, cap, limit, cursor) ==
    LET served == Min(limit, cap)
        start == PageStart(v, served, cursor)
    IN IF start >= Len(items) THEN <<>>
       ELSE SubSeq(items, start + 1, Min(start + served, Len(items)))

\* "total": null in a response
NoneTotal == -1

OkResponse(v, sh, items, cap, limit, cursor) ==
    LET served == Min(limit, cap)
        start == PageStart(v, served, cursor)
    IN [status |-> 200, raises |-> FALSE,
        items |-> VendorPage(v, items, cap, limit, cursor),
        has_total |-> (sh \in {"total", "nulltotal"}),
        total |-> IF sh = "nulltotal" THEN NoneTotal ELSE Len(items),
        next |-> (start + served < Len(items))]

ErrorResponse == [status |-> 500, raises |-> FALSE, items |-> <<>>,
                  has_total |-> FALSE, total |-> 0, next |-> FALSE]

\* the request itself raises (connection error, invalid JSON)
RaisingResponse == [status |-> 0, raises |-> TRUE, items |-> <<>>,
                    has_total |-> FALSE, total |-> 0, next |-> FALSE]

ListResponses(v, sh, items, cap, limit, cursor) ==
    {OkResponse(v, sh, items, cap, limit, cursor), ErrorResponse, RaisingResponse}

----------------------------------------------------------------------------
(* list_products: the page dictionary built from a response *)

Paging(keys, total, next) == [keys |-> keys, total |-> total, next |-> next]

\* {"products": [], "paging": {}}
EmptyPage == [raised |-> FALSE, products |-> <<>>, paging |-> Paging({}, 0, FALSE)]

\* paging.get("total", 0)
PagingTotal(p) == IF "total" \in p.keys THEN p.total ELSE 0

\* paging.get("next"), as a truth value
PagingNext(p) == "next" \in p.keys /\ p.next

\* the dictionary built from a status-200 response
PageOf(v, resp) ==
    CASE v = "teemill" ->
            \* orders = data.get("orders", []); total = data.get("total", len(orders))
            [raised |-> FALSE, products |-> resp.items,
             paging |-> Paging({"total", "limit", "offset"},
                               IF resp.has_total THEN resp.total
                                                 ELSE Len(resp.items),
                               FALSE)]
      [] v = "printful" ->
            \* data.get("result", []), data.get("paging", {})
            [raised |-> FALSE, products |-> resp.items,
             paging |-> Paging({"next"}, 0, resp.next)]
      [] v = "printify" ->
            \* data if isinstance(data, list) else data.get("data", [])
            [raised |-> FALSE, products |-> resp.items,
             paging |-> Paging({"current_page", "limit", "total"},
                               Len(resp.items), FALSE)]
      [] v = "prodigi" ->
            \* total: len(orders), Prodigi returns no total count
            [raised |-> FALSE, products |-> resp.items,
             paging |-> Paging({"total", "limit", "offset"},
                               Len(resp.items), FALSE)]

\* A list_products that lets a failed request escape, as raise_for_status() would.
ListProductsRaising(v, resp) ==
    IF resp.raises \/ resp.status # 200
    THEN [raised |-> TRUE, products |-> <<>>, paging |-> Paging({}, 0, FALSE)]
    ELSE PageOf(v, resp)

ListProducts(v, resp) ==
    IF resp.raises THEN EmptyPage             \* except Exception
    ELSE IF resp.status # 200 THEN EmptyPage  \* if response.status != 200
    ELSE PageOf(v, resp)

----------------------------------------------------------------------------
(* The sweeps' loop body *)

\* A stricter filter: the owner token of the reference equals user_id.
MatchesUserExactly(p, user_id) ==
    /\ p.reference.kind = "str"
    /\ p.reference.val # <<>>
    /\ Len(Split(p.reference.val, Underscore)) >= 2
    /\ Split(p.reference.val, Underscore)[2] = user_id

\* p.get(F) and user_id in p.get(F, "")
MatchesUser(p, user_id) ==
    /\ p.reference.kind = "str"
    /\ p.reference.val # <<>>
    /\ Contains(p.reference.val, user_id)

\* [p for p in products if ...]
UserProducts(products, user_id) ==
    SelectSeq(products, LAMBDA p : MatchesUser(p, user_id))

\* the break after the page has been taken: no more pages
LastPage(v, page, limit, cursor) ==
    CASE v = "teemill" -> cursor + limit >= PagingTotal(page.paging)
      [] v = "printful" -> ~PagingNext(page.paging)
      [] v = "printify" -> Len(page.products) < limit
      [] v = "prodigi" -> Len(page.products) < limit

\* offset + limit >= total raises TypeError when total is None
CompareRaises(v, page) ==
    v = "teemill" /\ PagingTotal(page.paging) = NoneTotal

\* a loop that asks for the same page again
AdvanceNot(v, limit, cursor) == cursor

\* offset += limit, or page += 1
Advance(v, limit, cursor) == IF v = "printify" THEN cursor + 1 ELSE cursor + limit

\* a sweep that starts from the second page
SecondCursor(v) == IF v = "printify" THEN 2 ELSE Limit

\* offset = 0, or page = 1
FirstCursor(v) == IF v = "printify" THEN 1 ELSE 0

----------------------------------------------------------------------------
(* get_design_stats over the materialized list *)

RECURSIVE GCD(_, _)
GCD(a, b) == IF b = 0 THEN a ELSE GCD(b, a % b)

\* a / b of two naturals, b > 0, as a fraction in lowest terms
Frac(a, b) == LET g == GCD(a, b) IN [num |-> a \div g, den |-> b \div g]

\* product.get(F, ""): the default only replaces a missing key
RefOrDefault(p) ==
    IF p.reference.kind = "missing" THEN Str(<<>>) ELSE p.reference

\* "discord_" in reference raises TypeError when reference is None
StatsRaises(products) ==
    \E i \in 1..Len(products) : RefOrDefault(products[i]).kind = "null"

\* the ids added to user_ids
OwnerIds(products) ==
    { Split(RefOrDefault(products[i]).val, Underscore)[2] :
        i \in { j \in 1..Len(products) :
                  /\ Contains(RefOrDefault(products[j]).val, Marker)
                  /\ Len(Split(RefOrDefault(products[j]).val, Underscore)) >= 2 } }

NoDesign == [id |-> 0, reference |-> Missing]

\* len(products) // len(user_ids): the integer division of the two counts
DesignsPerUserFloor(total, unique) ==
    IF unique # 0 THEN [num |-> total \div unique, den |-> 1] ELSE [num |-> 0, den |-> 1]

\* len(products) / len(user_ids) if user_ids else 0
DesignsPerUser(total, unique) ==
    IF unique # 0 THEN Frac(total, unique) ELSE [num |-> 0, den |-> 1]

\* products[-1] if products else None
LatestDesignLast(products) ==
    IF products # <<>>
    THEN [present |-> TRUE, item |-> products[Len(products)]]
    ELSE [present |-> FALSE, item |-> NoDesign]

\* products[0] if products else None
LatestDesign(products) ==
    IF products # <<>>
    THEN [present |-> TRUE, item |-> products[1]]
    ELSE [present |-> FALSE, item |-> NoDesign]

DesignStats(products) ==
    [total_designs |-> Len(products),
     unique_users |-> Cardinality(OwnerIds(products)),
     designs_per_user |-> DesignsPerUser(Len(products), Cardinality(OwnerIds(products))),
     latest_design |-> LatestDesign(products)]

----------------------------------------------------------------------------
(* The HTTP session *)

\* self.session is None
NoSession == 0

\* initialize() without its guard: a new session on every call
InitializeAlways(h) ==
    [session |-> Len(h.log) + 1, log |-> Append(h.log, "open")]

\* if not self.session: self.session = aiohttp.ClientSession(...)
initialize(h) ==
    IF h.session = NoSession
    THEN [session |-> Len(h.log) + 1, log |-> Append(h.log, "open")]
    ELSE h

\* The run creates at most MaxSessions sessions.
MayInitialize(h) == h.session # NoSession \/ Len(h.log) < MaxSessions

----------------------------------------------------------------------------
(* The coroutines *)

NoResult == [kind |-> "none", value |-> <<>>]

Raised(error) == [kind |-> "raised", value |-> error]

IdleTask ==
    [pc |-> "idle", op |-> "none", user_id |-> <<>>, limit |-> 0, cursor |-> 0,
     all_products |-> <<>>, result |-> NoResult,
     \* create_product's arguments and locals
     design_image |-> <<>>, product_name |-> <<>>, provider |-> 0, image |-> Missing,
     \* history: the last response, whether a listing call failed, the pages
     \* fetched and the first of them, the requests create_product sent
     resp |-> ErrorResponse, failed |-> FALSE, fetched |-> 0, first_page |-> <<>>,
     sent |-> <<>>,
     \* cleanup: the session it found
     held |-> NoSession,
     \* the function of the orchestrator or of main that awaits this operation
     \* ("direct": the client is called by itself), what the operation gave
     \* it, the phrase extracted, and the steps invoked so far
     caller |-> "direct", inner |-> NoResult, phrase |-> <<>>, steps |-> <<>>,
     \* history: how parse_message and generate_design ended
     parsed |-> "pending", generated |-> "pending",
     \* history: how many print providers the vendor reported (-1: not asked)
     providers |-> -1]

----------------------------------------------------------------------------
(* The orchestrator: what it makes of the result of the operation it awaits *)

\* str(e) of the exceptions of the model
StrOf(error) ==
    CASE error = "ClientResponseError" -> <<"5", "0", "0">>
      [] error = "RuntimeError" -> <<"c", "l", "o", "s", "e", "d">>
      [] error = "AttributeError" -> <<"N", "o", "n", "e">>
      [] error = "TypeError" -> <<"T", "y", "p", "e">>
      [] error = "OSError" -> <<"d", "i", "s", "k">>
      [] error = "OutputParserException" -> <<"j", "s", "o", "n">>
      [] OTHER -> <<"e", "r", "r">>

FailedToParse ==
    <<"F", "a", "i", "l", "e", "d", " ", "t", "o", " ", "p", "a", "r", "s", "e",
      " ", "m", "e", "s", "s", "a", "g", "e">>

RESPONSE_PHRASES ==
    <<"Got you fam!", "Say less, squad!", "Bet! Your fit is ready!",
      "No cap, this tee slaps!", "It's giving main character energy!",
      "Chef's kiss on this one!", "Your drip has arrived!",
      "Sheesh, this goes hard!", "We understood the assignment!",
      "Straight bussin'!">>

\* product_url = None
NoUrl == [kind |-> "absent", key |-> Null]

TShirtResult(success, product_url, response_phrase, error_message, phrase) ==
    [kind |-> "tshirt",
     value |-> [success |-> success, product_url |-> product_url,
                response_phrase |-> response_phrase,
                error_message |-> error_message, phrase |-> phrase]]

\* if not request: return TShirtResult(success=False, ...)
ParseFailure ==
    TShirtResult(FALSE, NoUrl, "Hmm, couldn't quite catch that...",
                 Str(FailedToParse), Null)

\* an except clause that reports a fixed text in the place of str(e)
CaughtWithoutText(error) ==
    TShirtResult(FALSE, NoUrl, "Oof, something broke on our end!",
                 Str(<<"o", "o", "p", "s">>), Null)

\* except Exception as e: return TShirtResult(success=False, ..., error_message=str(e))
Caught(error) ==
    TShirtResult(FALSE, NoUrl, "Oof, something broke on our end!",
                 Str(StrOf(error)), Null)

\* product.product_url or f"https://teemill.com/order/{product.order_id}"
ProductUrlOf(product) ==
    IF product.product_url.kind = "absent"
    THEN [kind |-> "synthesized", key |-> product.key]
    ELSE product.product_url

\* a result that reports the phrase as cut for the product name
ProcessResultCutPhrase(inner, phrase, i) ==
    IF inner.kind = "product"
    THEN TShirtResult(TRUE, ProductUrlOf(inner.value), RESPONSE_PHRASES[i], Null,
                      Str(SubSeq(phrase, 1, Min(50, Len(phrase)))))
    ELSE Caught(inner.value)

\* a process_tshirt_request without its except clause
ProcessResultUncaught(inner, phrase, i) ==
    IF inner.kind = "product"
    THEN TShirtResult(TRUE, ProductUrlOf(inner.value), RESPONSE_PHRASES[i], Null,
                      Str(phrase))
    ELSE inner

\* process_tshirt_request once create_product has returned or raised; i is the
\* index random.choice takes
ProcessResult(inner, phrase, i) ==
    IF inner.kind = "product"
    THEN TShirtResult(TRUE, ProductUrlOf(inner.value), RESPONSE_PHRASES[i], Null,
                      Str(phrase))
    ELSE Caught(inner.value)

\* the statistics get_design_statistics returns when the client raised
ZeroStats ==
    [total_designs |-> 0, unique_users |-> 0,
     designs_per_user |-> [num |-> 0, den |-> 1],
     latest_design |-> [present |-> FALSE, item |-> NoDesign]]

\* an orchestrator query without its except clause
QueryResultUncaught(caller, inner) == inner

\* get_user_designs / get_design_statistics / get_all_designs: the client's
\* result, or the default when the client raised
QueryResult(caller, inner) ==
    IF inner.kind # "raised" THEN inner
    ELSE IF caller = "get_design_statistics"
    THEN [kind |-> "stats", value |-> ZeroStats]
    ELSE [kind |-> "list", value |-> <<>>]

Queries == {"get_user_designs", "get_design_statistics", "get_all_designs"}

\* The operation a coroutine awaited has finished (pc "done"): the function
\* that awaited it goes on, without a suspension, to its own return or to its
\* next await.
ToCaller(me) ==
    IF me.pc # "done" \/ me.caller = "direct" THEN {me}
    ELSE IF me.caller = "process_tshirt_request"
    THEN { [me EXCEPT !.inner = me.result,
                      !.result = ProcessResult(me.result, me.phrase, i)] :
             i \in IF me.result.kind = "product" THEN DOMAIN RESPONSE_PHRASES ELSE {1} }
    ELSE IF me.caller \in Queries
    THEN { [me EXCEPT !.inner = me.result,
                      !.result = QueryResult(me.caller, me.result)] }
    ELSE \* main, in bot.close(): await self.orchestrator.cleanup() has ended
         IF me.result.kind = "raised"
         THEN { [me EXCEPT !.op = "main"] }
         ELSE { [me EXCEPT !.pc = "super_close", !.op = "main",
                           !.steps = Append(me.steps, "super_close")] }

Sweeps == {"search_products_by_user", "get_all_designs", "get_design_stats"}

\* self.session is a session that is still open
Usable(h) == h.session # NoSession /\ h.log[h.session] = "open"

\* What a sweep returns from its accumulated list.
SweepResult(op, all_products) ==
    IF op = "get_design_stats"
    THEN IF StatsRaises(all_products)
         THEN Raised("TypeError")
         ELSE [kind |-> "stats", value |-> DesignStats(all_products)]
    ELSE [kind |-> "list", value |-> all_products]

\* a loop body that forgets what it accumulated when the page is empty
TakePageForgetful(v, me, page) ==
    IF page.raised
    THEN [me EXCEPT !.pc = "done", !.result = Raised("ClientError")]
    ELSE IF page.products = <<>>
    THEN [me EXCEPT !.pc = "done", !.all_products = <<>>,
                    !.result = SweepResult(me.op, <<>>)]
    ELSE IF LastPage(v, page, me.limit, me.cursor)
    THEN [me EXCEPT !.pc = "done", !.all_products = me.all_products \o page.products,
                    !.result = SweepResult(me.op, me.all_products \o page.products)]
    ELSE [me EXCEPT !.pc = "call", !.all_products = me.all_products \o page.products,
                    !.cursor = Advance(v, me.limit, me.cursor)]

\* The caller of list_products takes the page: list_products called on its own
\* returns it; a sweep runs its loop body, up to the break or to the next call
\* (pc "call").
TakePage(v, me, page) ==
    LET kept == IF me.op = "search_products_by_user"
                THEN UserProducts(page.products, me.user_id)
                ELSE page.products
        all == me.all_products \o kept
    IN IF me.op = "list_products"
       THEN [me EXCEPT !.pc = "done",
                       !.result = IF page.raised THEN Raised("ClientError")
                                  ELSE [kind |-> "page", value |-> page]]
       ELSE IF page.raised
       THEN [me EXCEPT !.pc = "done", !.result = Raised("ClientError")]
       ELSE IF page.products = <<>>
       THEN \* if not products: break
            [me EXCEPT !.pc = "done", !.result = SweepResult(me.op, me.all_products)]
       ELSE IF CompareRaises(v, page)
       THEN [me EXCEPT !.pc = "done", !.all_products = all,
                       !.result = Raised("TypeError")]
       ELSE IF LastPage(v, page, me.limit, me.cursor)
       THEN [me EXCEPT !.pc = "done", !.all_products = all,
                       !.result = SweepResult(me.op, all)]
       ELSE [me EXCEPT !.pc = "call", !.all_products = all,
                       !.cursor = Advance(v, me.limit, me.cursor)]

\* list_products is entered with session state h (already lazily initialized):
\* the request is sent, or, on a closed session, raises at once and the empty
\* page comes back without a suspension.
CallList(v, me, h) ==
    IF Usable(h)
    THEN [me EXCEPT !.pc = "list",
                    !.sent = Append(me.sent, [kind |-> "list", cursor |-> me.cursor])]
    ELSE TakePage(v, [me EXCEPT !.failed = TRUE, !.resp = RaisingResponse,
                                !.fetched = me.fetched + 1],
                  ListProducts(v, RaisingResponse))

\* search_products_by_user(user_id) / get_all_designs() / get_design_stats(), up
\* to the first request of the loop.
StartSweep(t, op, user_id) ==
    /\ t \in tasks
    /\ task[t].pc = "idle"
    /\ MayInitialize(http)
    /\ http' = initialize(http)
    /\ task' = [task EXCEPT ![t] =
                 CallList(vendor,
                          [IdleTask EXCEPT !.op = op, !.user_id = user_id,
                                           !.limit = Limit,
                                           !.cursor = FirstCursor(vendor)],
                          initialize(http))]
    /\ UNCHANGED <<vendor, shape, pageCap, listing, tasks, allDesigns, hashseed, calls>>

\* list_products(limit, cursor) called on its own, up to its request.
StartList(t, limit, cursor) ==
    /\ t \in tasks
    /\ task[t].pc = "idle"
    /\ MayInitialize(http)
    /\ http' = initialize(http)
    /\ task' = [task EXCEPT ![t] =
                 CallList(vendor,
                          [IdleTask EXCEPT !.op = "list_products",
                                           !.limit = limit, !.cursor = cursor],
                          initialize(http))]
    /\ UNCHANGED <<vendor, shape, pageCap, listing, tasks, allDesigns, hashseed, calls>>

\* The listing request is answered: list_products returns, and in a sweep the
\* loop body runs up to the next request or to the return.
ListAnswered(t) ==
    /\ t \in tasks
    /\ task[t].pc = "list"
    /\ \E resp \in ListResponses(vendor, shape, listing, pageCap,
                                 task[t].limit, task[t].cursor) :
         LET me == task[t]
             page == ListProducts(vendor, resp)
             seen == [me EXCEPT !.resp = resp,
                                !.failed = me.failed \/ resp.raises \/ resp.status # 200,
                                !.fetched = me.fetched + 1,
                                !.first_page = IF me.fetched = 0 THEN page.products
                                               ELSE me.first_page]
             took == TakePage(vendor, seen, page)
         IN IF took.pc = "call"
            THEN \* the next list_products call opens a session if there is none
                 /\ MayInitialize(http)
                 /\ http' = initialize(http)
                 /\ \E m \in ToCaller(CallList(vendor, took, initialize(http))) :
                        task' = [task EXCEPT ![t] = m]
            ELSE /\ http' = http
                 /\ \E m \in ToCaller(took) : task' = [task EXCEPT ![t] = m]
    /\ UNCHANGED <<vendor, shape, pageCap, listing, tasks, allDesigns, hashseed, calls>>

\* The caller takes the result; the coroutine is gone.
Return(t) ==
    /\ t \in tasks
    /\ task[t].pc = "done"
    /\ allDesigns' = IF task[t].op = "get_all_designs" /\ task[t].result.kind = "list"
                     THEN [known |-> TRUE, value |-> task[t].result.value,
                           failed |-> task[t].failed]
                     ELSE allDesigns
    /\ task' = [task EXCEPT ![t] = IdleTask]
    /\ UNCHANGED <<vendor, shape, pageCap, listing, http, tasks, hashseed, calls>>

\* initialize() called by the owner of the client
Initialize(t) ==
    /\ t \in tasks
    /\ task[t].pc = "idle"
    /\ MayInitialize(http)
    /\ http' = initialize(http)
    /\ UNCHANGED <<vendor, shape, pageCap, listing, tasks, task, allDesigns, hashseed, calls>>

----------------------------------------------------------------------------
(* create_product *)

Http == <<"h", "t", "t", "p">>
Base64Comma == <<"b", "a", "s", "e", "6", "4", ",">>

ImageUrl == Http \o <<"s", ":", "/", "/", "x">>
ImageDataUrl == <<"d", ":">> \o Base64Comma \o <<"Q", "U">>
ImageBase64 == <<"Q", "U">>
Images == {ImageUrl, ImageDataUrl, ImageBase64}

NameA == <<"H", "i">>
NameB == <<"Y", "o", "_", "2">>
Names == {NameA, NameB}

\* print_provider_id: None
NoProvider == 0
SomeProvider == 99

\* str(hash(product_name)): an integer, negative or not, that depends on the
\* process's hash seed
HashText(product_name, seed) ==
    IF (product_name = NameA) = (seed = 0) THEN <<"4", "2">> ELSE <<"-", "7">>

\* An external id that leaves the user out: f"discord_{hash(product_name)}"
ExternalIdWithoutUser(user_id, product_name, seed) ==
    Marker \o HashText(product_name, seed)

\* f"discord_{user_id}_{hash(product_name)}"
ExternalId(user_id, product_name, seed) ==
    Marker \o user_id \o Underscore \o HashText(product_name, seed)

\* a test that takes no image for a URL
NeverUrl(image_data) == FALSE

\* image_data.startswith("http")
IsUrl(image_data) == StartsWith(image_data, Http)

\* if "base64," in image_data: image_data = image_data.split("base64,")[1]
StripBase64(image_data) ==
    IF Contains(image_data, Base64Comma)
    THEN Split(image_data, Base64Comma)[2]
    ELSE image_data

Request(kind, reference, url, file, image) ==
    [kind |-> kind, reference |-> reference, url |-> url, file |-> file, image |-> image]

\* the payload of the upload request
UploadRequest(v, image_data) ==
    CASE v = "teemill" ->
            Request("upload", Missing, Missing, Str(image_data), Missing)
      [] v = "printful" ->
            Request("upload", Missing,
                    IF IsUrl(image_data) THEN Str(image_data) ELSE Null,
                    IF ~IsUrl(image_data) THEN Str(image_data) ELSE Null,
                    Missing)
      [] v = "printify" ->
            IF IsUrl(image_data)
            THEN Request("upload", Missing, Str(image_data), Missing, Missing)
            ELSE Request("upload", Missing, Missing, Str(StripBase64(image_data)), Missing)
      [] v = "prodigi" ->
            Request("upload", Missing, Missing, Missing, Missing)

\* The payload of the creation request: "reference" (Teemill) and
\* "merchantReference" (Prodigi) carry external_id; the payloads of Printful's
\* sync product and of Printify's product have no such field.
CreateRequest(v, image, external_id) ==
    CASE v = "teemill" -> Request("create", Str(external_id), Missing, Missing, image)
      [] v = "printful" -> Request("create", Missing, Missing, Missing, image)
      [] v = "printify" -> Request("create", Missing, Missing, Missing, image)
      [] v = "prodigi" -> Request("create", Str(external_id), Missing, Missing, image)

Key == <<"k", "1">>
UploadedRef == <<"u", "1">>

\* the vendor's answers to the requests of create_product
FailedAnswer == [ok |-> FALSE, has_id |-> FALSE, has_url |-> FALSE, count |-> 0]
UploadAnswers ==
    {FailedAnswer} \cup
    { [ok |-> TRUE, has_id |-> b, has_url |-> FALSE, count |-> 0] : b \in BOOLEAN }
CreateAnswers ==
    {FailedAnswer} \cup
    { [ok |-> TRUE, has_id |-> b, has_url |-> u, count |-> 0] : b, u \in BOOLEAN }
\* print providers of the blueprint, variants of the blueprint and provider
CatalogAnswers ==
    {FailedAnswer} \cup
    { [ok |-> TRUE, has_id |-> TRUE, has_url |-> FALSE, count |-> n] : n \in 0..1 }

\* The product object built from the creation response.
NewProduct(v, answer, product_name, external_id) ==
    LET key == IF answer.has_id THEN Str(Key) ELSE Null
    IN [external_id |-> Str(external_id),
        name |-> product_name,
        key |-> key,
        product_url |->
            CASE v = "teemill" ->
                    \* data.get("url") or f"https://teemill.com/order/{order_id}"
                    IF answer.has_url THEN [kind |-> "vendor", key |-> key]
                    ELSE [kind |-> "synthesized", key |-> key]
              [] v = "printful" ->
                    \* PrintfulProduct has no product_url; store_url is dropped
                    [kind |-> "absent", key |-> key]
              [] v = "printify" -> [kind |-> "synthesized", key |-> key]
              [] v = "prodigi" -> [kind |-> "synthesized", key |-> key]]

\* a sub-step that sends its request again (a retry)
SendTwice(me, h, pc, request) ==
    IF h.session = NoSession
    THEN [me EXCEPT !.pc = "done", !.result = Raised("AttributeError")]
    ELSE [me EXCEPT !.pc = pc, !.sent = me.sent \o <<request, request>>]

\* self.session.post / .get of a sub-step: the request is sent and the
\* coroutine waits at pc, or the call raises on a missing or closed session.
Send(me, h, pc, request) ==
    IF h.session = NoSession
    THEN [me EXCEPT !.pc = "done", !.result = Raised("AttributeError")]
    ELSE IF ~Usable(h)
    THEN [me EXCEPT !.pc = "done", !.result = Raised("RuntimeError")]
    ELSE [me EXCEPT !.pc = pc, !.sent = Append(me.sent, request)]

SendCreate(v, me, h, seed) ==
    Send(me, h, "create",
         CreateRequest(v, me.image, ExternalId(me.user_id, me.product_name, seed)))

SendUpload(v, me, h) == Send(me, h, "upload", UploadRequest(v, me.design_image))

\* create_product up to its first request
FirstStep(v, me, h, seed) ==
    CASE v = "teemill" ->
            IF IsUrl(me.design_image)
            THEN SendCreate(v, [me EXCEPT !.image = Str(me.design_image)], h, seed)
            ELSE SendUpload(v, me, h)
      [] v = "printful" -> SendUpload(v, me, h)
      [] v = "printify" ->
            IF me.provider = NoProvider
            THEN Send(me, h, "providers",
                      Request("providers", Missing, Missing, Missing, Missing))
            ELSE SendUpload(v, me, h)
      [] v = "prodigi" ->
            \* _upload_design_image returns its argument without a request
            SendCreate(v, [me EXCEPT !.image = Str(me.design_image)], h, seed)

StartCreate(t, design_image, product_name, user_id, provider) ==
    /\ t \in tasks
    /\ task[t].pc = "idle"
    /\ calls < MaxCalls
    /\ MayInitialize(http)
    /\ (vendor # "printify" => provider = NoProvider)
    /\ http' = initialize(http)
    /\ calls' = calls + 1
    /\ task' = [task EXCEPT ![t] =
                 FirstStep(vendor,
                           [IdleTask EXCEPT !.op = "create_product",
                                            !.design_image = design_image,
                                            !.product_name = product_name,
                                            !.user_id = user_id,
                                            !.provider = provider],
                           initialize(http), hashseed)]
    /\ UNCHANGED <<vendor, shape, pageCap, listing, tasks, allDesigns, hashseed>>

\* an auto-selection that uploads the image whatever the list of providers
AfterProvidersUnchecked(v, me, h, answer) ==
    IF ~answer.ok
    THEN [me EXCEPT !.pc = "done", !.result = Raised("ClientResponseError")]
    ELSE SendUpload(v, [me EXCEPT !.providers = answer.count,
                                  !.provider = SomeProvider], h)

\* create_product from the answer of get_print_providers to the upload
AfterProviders(v, me, h, answer) ==
    IF ~answer.ok
    THEN [me EXCEPT !.pc = "done", !.result = Raised("ClientResponseError")]
    ELSE IF answer.count = 0
    THEN \* if not providers: raise ValueError
         [me EXCEPT !.pc = "done", !.providers = answer.count,
                    !.result = Raised("ValueError")]
    ELSE \* print_provider_id = providers[0]["id"]
         SendUpload(v, [me EXCEPT !.providers = answer.count,
                                  !.provider = SomeProvider], h)

\* get_print_providers answered (Printify, no provider given)
ProvidersAnswered(t) ==
    /\ t \in tasks
    /\ task[t].pc = "providers"
    /\ \E answer \in CatalogAnswers :
         task' = [task EXCEPT ![t] = AfterProviders(vendor, task[t], http, answer)]
    /\ UNCHANGED <<vendor, shape, pageCap, listing, http, tasks, allDesigns, hashseed, calls>>

\* the upload answered
UploadAnswered(t) ==
    /\ t \in tasks
    /\ task[t].pc = "upload"
    /\ \E answer \in UploadAnswers :
         LET me == task[t]
             uploaded == [me EXCEPT !.image = IF answer.has_id THEN Str(UploadedRef)
                                              ELSE Null]
             next ==
                   IF ~answer.ok
                   THEN [me EXCEPT !.pc = "done", !.result = Raised("ClientResponseError")]
                   ELSE CASE vendor = "teemill" -> SendCreate(vendor, uploaded, http, hashseed)
                          [] vendor = "printful" ->
                                \* data["result"]["id"]
                                IF answer.has_id
                                THEN SendCreate(vendor, uploaded, http, hashseed)
                                ELSE [me EXCEPT !.pc = "done", !.result = Raised("KeyError")]
                          [] vendor = "printify" ->
                                Send(uploaded, http, "variants",
                                     Request("variants", Missing, Missing, Missing, Missing))
                          [] vendor = "prodigi" -> uploaded
         IN \E m \in ToCaller(next) : task' = [task EXCEPT ![t] = m]
    /\ UNCHANGED <<vendor, shape, pageCap, listing, http, tasks, allDesigns, hashseed, calls>>

\* _get_blueprint answered (Printify); _create_product then checks the variants
VariantsAnswered(t) ==
    /\ t \in tasks
    /\ task[t].pc = "variants"
    /\ \E answer \in CatalogAnswers :
         task' = [task EXCEPT ![t] =
                   IF ~answer.ok
                   THEN [@ EXCEPT !.pc = "done", !.result = Raised("ClientResponseError")]
                   ELSE IF answer.count = 0
                   THEN \* if not variants: raise ValueError
                        [@ EXCEPT !.pc = "done", !.result = Raised("ValueError")]
                   ELSE SendCreate(vendor, @, http, hashseed)]
    /\ UNCHANGED <<vendor, shape, pageCap, listing, http, tasks, allDesigns, hashseed, calls>>

\* What the vendor keeps of a product it created: the reference its creation
\* request carried, or none.  creator is history: the user_id of the call,
\* which no field of the vendor's record holds.
Stored(items, request, user_id) ==
    Append(items, [id |-> Len(items) + 1, reference |-> request.reference,
                   creator |-> user_id])

\* the creation request answered
CreateAnswered(t) ==
    /\ t \in tasks
    /\ task[t].pc = "create"
    /\ \E answer \in CreateAnswers :
         LET me == task[t]
             external_id == ExternalId(me.user_id, me.product_name, hashseed)
             next ==
                   IF ~answer.ok
                   THEN [me EXCEPT !.pc = "done", !.result = Raised("ClientResponseError")]
                   ELSE IF vendor = "printful" /\ ~answer.has_id
                   THEN \* result["sync_product"]["id"]
                        [me EXCEPT !.pc = "done", !.result = Raised("KeyError")]
                   ELSE [me EXCEPT !.pc = "done",
                                   !.result = [kind |-> "product",
                                               value |-> NewProduct(vendor, answer,
                                                                    me.product_name,
                                                                    external_id)]]
         IN /\ \E m \in ToCaller(next) : task' = [task EXCEPT ![t] = m]
            /\ listing' = IF answer.ok THEN Stored(listing, me.sent[Len(me.sent)], me.user_id)
                          ELSE listing
    /\ UNCHANGED <<vendor, shape, pageCap, http, tasks, allDesigns, hashseed, calls>>

----------------------------------------------------------------------------
(* cleanup and get_product_info *)

\* a cleanup that drops the session without closing it
Dropped(h) == h

\* session.close() of cleanup: the session held is closed
Closed(h) ==
    [h EXCEPT !.log = [h.log EXCEPT ![h.session] = "closed"]]

\* cleanup() returned None
CleanedUp == [kind |-> "cleanup", value |-> <<>>]

\* cleanup() up to the suspension in close(): if self.session: await
\* self.session.close(); without a session it returns at once
cleanup(me, h) ==
    IF h.session = NoSession
    THEN [me EXCEPT !.pc = "done", !.op = "cleanup", !.result = CleanedUp]
    ELSE [me EXCEPT !.pc = "closing", !.op = "cleanup", !.held = h.session]

\* the session state once cleanup() has reached its suspension or returned
Closing(h) == IF h.session = NoSession THEN h ELSE Closed(h)

CleanupBegin(t) ==
    /\ t \in tasks
    /\ task[t].pc = "idle"
    /\ http' = Closing(http)
    /\ task' = [task EXCEPT ![t] = cleanup(IdleTask, http)]
    /\ UNCHANGED <<vendor, shape, pageCap, listing, tasks, allDesigns, hashseed, calls>>

\* self.session = None, once close() has returned
CleanupEnd(t) ==
    /\ t \in tasks
    /\ task[t].pc = "closing"
    /\ http' = [http EXCEPT !.session = NoSession]
    /\ \E m \in ToCaller([task[t] EXCEPT !.pc = "done", !.result = CleanedUp]) :
           task' = [task EXCEPT ![t] = m]
    /\ UNCHANGED <<vendor, shape, pageCap, listing, tasks, allDesigns, hashseed, calls>>

\* get_product_info(id) up to its request
StartInfo(t) ==
    /\ t \in tasks
    /\ task[t].pc = "idle"
    /\ MayInitialize(http)
    /\ http' = initialize(http)
    /\ task' = [task EXCEPT ![t] =
                 Send([IdleTask EXCEPT !.op = "get_product_info"], initialize(http),
                      "info", Request("info", Missing, Missing, Missing, Missing))]
    /\ UNCHANGED <<vendor, shape, pageCap, listing, tasks, allDesigns, hashseed, calls>>

\* response.raise_for_status(); return the record
InfoAnswered(t) ==
    /\ t \in tasks
    /\ task[t].pc = "info"
    /\ \E ok \in BOOLEAN :
         task' = [task EXCEPT ![t] =
                   [@ EXCEPT !.pc = "done",
                             !.result = IF ok THEN [kind |-> "info", value |-> <<>>]
                                        ELSE Raised("ClientResponseError")]]
    /\ UNCHANGED <<vendor, shape, pageCap, listing, http, tasks, allDesigns, hashseed, calls>>

\* session.close() raises: cleanup() lets the exception through, with
\* self.session still set; whether the session got closed is not known
CleanupFails(t) ==
    /\ t \in tasks
    /\ task[t].pc = "closing"
    /\ \E state \in {"open", "closed"} :
           http' = [http EXCEPT !.log = [http.log EXCEPT ![task[t].held] = state]]
    /\ \E m \in ToCaller([task[t] EXCEPT !.pc = "done", !.result = Raised("ClientError")]) :
           task' = [task EXCEPT ![t] = m]
    /\ UNCHANGED <<vendor, shape, pageCap, listing, tasks, allDesigns, hashseed, calls>>

----------------------------------------------------------------------------
(* The orchestrator's operations *)

PhraseCut == 50

PhraseHi == <<"H", "i">>
LongPhrase == [i \in 1..(PhraseCut + 1) |-> "x"]
Phrases == {PhraseHi, LongPhrase}

\* f"{request.phrase[:50]} - Custom Tee"
ProductName(phrase) ==
    SubSeq(phrase, 1, Min(PhraseCut, Len(phrase)))
    \o <<" ", "-", " ", "C", "u", "s", "t", "o", "m", " ", "T", "e", "e">>

\* What parse_message gives: a request (from the model's answer, or from the
\* fallback when the call failed); a substituted parser may also return None
\* or raise.
ParseOutcomes ==
    { [kind |-> "request", phrase |-> p, error |-> "none"] : p \in Phrases }
    \cup { [kind |-> "none", phrase |-> <<>>, error |-> "none"],
           [kind |-> "raises", phrase |-> <<>>, error |-> "OutputParserException"] }

\* generate_design returns (path, bytes), or re-raises what PIL raised
GenerateOutcomes ==
    { [kind |-> "image", error |-> "none"], [kind |-> "raises", error |-> "OSError"] }

\* a test of the request that lets None through
IsRequestOrNone(outcome) == outcome.kind # "raises"

\* not (not request)
IsRequest(outcome) == outcome.kind = "request"

\* a generation whose failure is ignored
GeneratedAnyway(gen) == TRUE

\* generate_design returned
Generated(gen) == gen.kind = "image"

\* process_tshirt_request reaches create_product
Creates(outcome, gen) ==
    outcome.kind # "raises" /\ IsRequest(outcome) /\ Generated(gen)

\* process_tshirt_request from the answer of parse_message to its return or
\* to the first request of create_product; h is the session state after the
\* lazy initialize() of create_product
AfterParse(v, me, outcome, gen, h, seed) ==
    IF outcome.kind = "raises"
    THEN {[me EXCEPT !.pc = "done", !.parsed = outcome.kind,
                     !.inner = Raised(outcome.error),
                     !.result = Caught(outcome.error)]}
    ELSE IF ~IsRequest(outcome)
    THEN {[me EXCEPT !.pc = "done", !.parsed = outcome.kind, !.result = ParseFailure]}
    ELSE LET g == [me EXCEPT !.parsed = outcome.kind, !.generated = gen.kind,
                             !.phrase = outcome.phrase,
                             !.steps = Append(me.steps, "generate_design")]
         IN IF ~Generated(gen)
            THEN {[g EXCEPT !.pc = "done", !.inner = Raised(gen.error),
                            !.result = Caught(gen.error)]}
            ELSE ToCaller(FirstStep(v,
                                    [g EXCEPT !.op = "create_product",
                                              !.design_image = ImageDataUrl,
                                              !.product_name = ProductName(outcome.phrase),
                                              !.steps = Append(g.steps, "create_product")],
                                    h, seed))

\* process_tshirt_request(message, user_id, username) up to the call of the model
StartProcess(t, user_id) ==
    /\ t \in tasks
    /\ task[t].pc = "idle"
    /\ task' = [task EXCEPT ![t] =
                 [IdleTask EXCEPT !.pc = "parse", !.op = "parse_message",
                                  !.caller = "process_tshirt_request",
                                  !.user_id = user_id,
                                  !.steps = <<"parse_message">>]]
    /\ UNCHANGED <<vendor, shape, pageCap, listing, http, tasks, allDesigns, hashseed, calls>>

\* parse_message answered; generate_design has no suspension of its own
ParseAnswered(t) ==
    /\ t \in tasks
    /\ task[t].pc = "parse"
    /\ \E outcome \in ParseOutcomes, gen \in GenerateOutcomes :
         /\ Creates(outcome, gen) => (MayInitialize(http) /\ calls < MaxCalls)
         /\ http' = IF Creates(outcome, gen) THEN initialize(http) ELSE http
         /\ calls' = IF Creates(outcome, gen) THEN calls + 1 ELSE calls
         /\ \E m \in AfterParse(vendor, task[t], outcome, gen, initialize(http), hashseed) :
                task' = [task EXCEPT ![t] = m]
    /\ UNCHANGED <<vendor, shape, pageCap, listing, tasks, allDesigns, hashseed>>

\* the client operation behind each query of the orchestrator
QueryOp(caller) ==
    CASE caller = "get_user_designs" -> "search_products_by_user"
      [] caller = "get_design_statistics" -> "get_design_stats"
      [] caller = "get_all_designs" -> "get_all_designs"

\* get_user_designs(user_id) / get_design_statistics() / get_all_designs() of
\* the orchestrator, up to the first request of the client's sweep
StartQuery(t, caller, user_id) ==
    /\ t \in tasks
    /\ task[t].pc = "idle"
    /\ MayInitialize(http)
    /\ http' = initialize(http)
    /\ \E m \in ToCaller(CallList(vendor,
                                  [IdleTask EXCEPT !.op = QueryOp(caller),
                                                   !.caller = caller,
                                                   !.user_id = user_id,
                                                   !.limit = Limit,
                                                   !.cursor = FirstCursor(vendor)],
                                  initialize(http))) :
           task' = [task EXCEPT ![t] = m]
    /\ UNCHANGED <<vendor, shape, pageCap, listing, tasks, allDesigns, hashseed, calls>>

\* the listings the orchestrator's queries run over
OrchListings ==
    { MakeListing(n, pat) :
        n \in {0, 2},
        pat \in { <<Str(Ref_123_456), Str(Ref_789_012)>>, <<Str(Ref_1234_5), Null>> } }

\* One request or query at a time on an orchestrator whose client is Teemill.
InitOrch ==
    /\ vendor = "teemill"
    /\ shape \in {"total", "nulltotal"}
    /\ pageCap = LargePage
    /\ listing \in OrchListings
    /\ http = [session |-> NoSession, log |-> <<>>]
    /\ tasks = {1}
    /\ task = [t \in TaskIds |-> IdleTask]
    /\ allDesigns = [known |-> FALSE, value |-> <<>>, failed |-> FALSE]
    /\ hashseed = 0
    /\ calls = 0

NextOrch ==
    \E t \in TaskIds :
        \/ \E u \in {U123, U1234} : StartProcess(t, u)
        \/ ParseAnswered(t)
        \/ UploadAnswered(t)
        \/ CreateAnswered(t)
        \/ \E c \in Queries : StartQuery(t, c, U123)
        \/ ListAnswered(t)
        \/ Return(t)
        \/ Initialize(t)
        \/ CleanupBegin(t)
        \/ CleanupEnd(t)

SpecOrch == InitOrch /\ [][NextOrch]_vars

----------------------------------------------------------------------------
(* main and the bot *)

\* main() before await bot.start(...)
MainTask == [IdleTask EXCEPT !.pc = "start", !.op = "main", !.caller = "main"]

IsMain(t) == task[t].caller = "main"

\* the bot is connected and dispatches events
Running == \E u \in tasks : IsMain(u) /\ task[u].pc = "running"

\* main() has ended: asyncio.run cancels what is left
MainEnded == \E u \in tasks : IsMain(u) /\ task[u].pc = "done"

\* main() returned normally
MainReturned == [kind |-> "main", value |-> <<>>]

\* finally: await bot.close(), up to the first suspension: close() awaits
\* orchestrator.cleanup(), which awaits the client's cleanup()
BeginClose(me, h) ==
    ToCaller(cleanup([me EXCEPT !.steps = me.steps \o <<"close", "cleanup">>], h))

\* bot.start: login, then setup_hook, which initializes the orchestrator; a
\* failed login raises before setup_hook and main goes to its finally clause
MainStarts(t) ==
    /\ t \in tasks
    /\ IsMain(t)
    /\ task[t].pc = "start"
    /\ \/ /\ MayInitialize(http)
          /\ http' = initialize(http)
          /\ task' = [task EXCEPT ![t] =
                       [@ EXCEPT !.pc = "running", !.steps = <<"setup_hook">>]]
       \/ /\ http' = Closing(http)
          /\ \E m \in BeginClose([task[t] EXCEPT !.steps = <<"Exception">>], http) :
                 task' = [task EXCEPT ![t] = m]
    /\ UNCHANGED <<vendor, shape, pageCap, listing, tasks, allDesigns, hashseed, calls>>

\* bot.start returns, raises, or is interrupted: the finally clause runs
MainStops(t) ==
    /\ t \in tasks
    /\ IsMain(t)
    /\ task[t].pc = "running"
    /\ http' = Closing(http)
    /\ \E how \in {"returned", "Exception", "KeyboardInterrupt"} :
         \E m \in BeginClose([task[t] EXCEPT !.steps = Append(@, how)], http) :
             task' = [task EXCEPT ![t] = m]
    /\ UNCHANGED <<vendor, shape, pageCap, listing, tasks, allDesigns, hashseed, calls>>

\* await super().close() has returned: close() and main() return
SuperClosed(t) ==
    /\ t \in tasks
    /\ task[t].pc = "super_close"
    /\ task' = [task EXCEPT ![t] = [@ EXCEPT !.pc = "done", !.result = MainReturned]]
    /\ UNCHANGED <<vendor, shape, pageCap, listing, http, tasks, allDesigns, hashseed, calls>>

\* main() and the handlers of the events dispatched while the bot runs
InitBot ==
    /\ vendor = "teemill"
    /\ shape = DefaultShape(vendor)
    /\ pageCap = LargePage
    /\ listing = MakeListing(2, <<Str(Ref_123_456), Str(Ref_789_012)>>)
    /\ http = [session |-> NoSession, log |-> <<>>]
    /\ tasks = TaskIds
    /\ task = [t \in TaskIds |-> IF t = 1 THEN MainTask ELSE IdleTask]
    /\ allDesigns = [known |-> FALSE, value |-> <<>>, failed |-> FALSE]
    /\ hashseed = 0
    /\ calls = 0

NextBot ==
    \E t \in TaskIds :
        \/ MainStarts(t)
        \/ MainStops(t)
        \/ CleanupEnd(t)
        \/ CleanupFails(t)
        \/ SuperClosed(t)
        \/ Running /\ StartProcess(t, U123)
        \/ ~MainEnded /\ ParseAnswered(t)
        \/ ~MainEnded /\ UploadAnswered(t)
        \/ ~MainEnded /\ CreateAnswered(t)
        \/ Running /\ \E c \in {"get_design_statistics", "get_user_designs"} :
                          StartQuery(t, c, U123)
        \/ ~MainEnded /\ ListAnswered(t)
        \/ ~MainEnded /\ ~IsMain(t) /\ Return(t)

SpecBot == InitBot /\ [][NextBot]_vars

----------------------------------------------------------------------------
(* One coroutine at a time over every listing *)

ListLimits == {SmallPage, Limit}
ListCursors(v) == IF v = "printify" THEN {1, 2} ELSE {0, 1, Limit}

Init ==
    /\ vendor \in Vendors
    /\ shape \in Shapes(vendor)
    /\ pageCap \in {SmallPage, LargePage}
    /\ \E n \in Sizes, pat \in Patterns : listing = MakeListing(n, pat)
    /\ http = [session |-> NoSession, log |-> <<>>]
    /\ tasks = {1}
    /\ task = [t \in TaskIds |-> IdleTask]
    /\ allDesigns = [known |-> FALSE, value |-> <<>>, failed |-> FALSE]
    /\ hashseed = 0
    /\ calls = 0

Next ==
    \E t \in TaskIds :
        \/ \E op \in Sweeps, u \in UserIds :
               /\ (op # "search_products_by_user" => u = U123)
               /\ StartSweep(t, op, u)
        \/ \E l \in ListLimits, c \in ListCursors(vendor) : StartList(t, l, c)
        \/ ListAnswered(t)
        \/ Return(t)
        \/ Initialize(t)

Spec == Init /\ [][Next]_vars

----------------------------------------------------------------------------
(* The sweeps alone, with every listing call answered *)

LiveSizes == {0, Limit, MaxPages * Limit + 1}

InitLive ==
    /\ vendor \in Vendors
    /\ shape \in Shapes(vendor)
    /\ pageCap \in {SmallPage, LargePage}
    /\ \E n \in LiveSizes :
          listing = MakeListing(n, <<Str(Ref_123_456), Str(Ref_789_012)>>)
    /\ http = [session |-> NoSession, log |-> <<>>]
    /\ tasks = {1}
    /\ task = [t \in TaskIds |-> IdleTask]
    /\ allDesigns = [known |-> FALSE, value |-> <<>>, failed |-> FALSE]
    /\ hashseed = 0
    /\ calls = 0

NextLive ==
    \E t \in TaskIds :
        \/ \E op \in Sweeps : StartSweep(t, op, U123)
        \/ ListAnswered(t)
        \/ Return(t)

\* The request list_products awaits is answered, with a page or with a
\* failure: the event loop resumes the coroutine.
Fairness == WF_vars(\E t \in TaskIds : ListAnswered(t))

SpecLive == InitLive /\ [][NextLive]_vars /\ Fairness

----------------------------------------------------------------------------
(* Products created in an empty store, and the sweeps over them *)

InitCreate ==
    /\ vendor \in Vendors
    /\ shape \in Shapes(vendor)
    /\ pageCap = LargePage
    /\ listing = <<>>
    /\ http = [session |-> NoSession, log |-> <<>>]
    /\ tasks = {1}
    /\ task = [t \in TaskIds |-> IdleTask]
    /\ allDesigns = [known |-> FALSE, value |-> <<>>, failed |-> FALSE]
    /\ hashseed \in {0, 1}
    /\ calls = 0

NextCreate ==
    \E t \in TaskIds :
        \/ \E i \in Images, n \in Names, u \in CreatorIds, pr \in {NoProvider, SomeProvider} :
               StartCreate(t, i, n, u, pr)
        \/ ProvidersAnswered(t)
        \/ UploadAnswered(t)
        \/ VariantsAnswered(t)
        \/ CreateAnswered(t)
        \/ \E op \in Sweeps, u \in UserIds :
               /\ (op # "search_products_by_user" => u = U123)
               /\ StartSweep(t, op, u)
        \/ ListAnswered(t)
        \/ Return(t)

SpecCreate == InitCreate /\ [][NextCreate]_vars

----------------------------------------------------------------------------
(* Coroutines interleaved at their suspension points on one client *)

InitSession ==
    /\ vendor \in Vendors
    /\ shape = DefaultShape(vendor)
    /\ pageCap = LargePage
    /\ listing = MakeListing(Limit + 1, <<Str(Ref_123_456), Str(Ref_789_012)>>)
    /\ http = [session |-> NoSession, log |-> <<>>]
    /\ tasks = TaskIds
    /\ task = [t \in TaskIds |-> IdleTask]
    /\ allDesigns = [known |-> FALSE, value |-> <<>>, failed |-> FALSE]
    /\ hashseed = 0
    /\ calls = 0

NextSession ==
    \E t \in TaskIds :
        \/ Initialize(t)
        \/ CleanupBegin(t)
        \/ CleanupEnd(t)
        \/ StartCreate(t, ImageBase64, NameA, U123, NoProvider)
        \/ ProvidersAnswered(t)
        \/ UploadAnswered(t)
        \/ VariantsAnswered(t)
        \/ CreateAnswered(t)
        \/ StartSweep(t, "search_products_by_user", U123)
        \/ StartSweep(t, "get_all_designs", U123)
        \/ StartList(t, Limit, FirstCursor(vendor))
        \/ ListAnswered(t)
        \/ StartInfo(t)
        \/ InfoAnswered(t)
        \/ Return(t)

SpecSession == InitSession /\ [][NextSession]_vars

----------------------------------------------------------------------------
(* Properties of the sweeps *)

Done(t, op) == task[t].pc = "done" /\ task[t].op = op

\* the reference of a listed item contains owner_id as a substring
RefContains(p, owner_id) ==
    p.reference.kind = "str" /\ Contains(p.reference.val, owner_id)

\* C3: with no failed listing call, search_products_by_user(owner_id) returns
\* exactly the items of get_all_designs() whose reference contains owner_id, in
\* the same order.
C3_SearchIsFilteredAll ==
    \A t \in tasks :
        (/\ Done(t, "search_products_by_user")
         /\ ~task[t].failed
         /\ allDesigns.known
         /\ ~allDesigns.failed)
        => task[t].result.value =
             SelectSeq(allDesigns.value, LAMBDA p : RefContains(p, task[t].user_id))

C3_Witness ==
    \E t \in tasks :
        /\ Done(t, "search_products_by_user")
        /\ ~task[t].failed
        /\ allDesigns.known
        /\ ~allDesigns.failed
        /\ task[t].fetched >= 2
        /\ task[t].result.value # <<>>
        /\ Len(task[t].result.value) < Len(allDesigns.value)

\* C4: with no failed listing call and a vendor that serves the pages asked
\* for, get_all_designs() returns the vendor's listing: every product once, in
\* the vendor's order.
C4_AllDesignsIsListing ==
    \A t \in tasks :
        (Done(t, "get_all_designs") /\ ~task[t].failed /\ pageCap >= Limit)
        => task[t].result.value = listing

\* C5: list_products never raises; a failed request gives the empty page and
\* a status 200 gives the vendor's items of that page in the vendor's order.
C5_ListNeverRaises ==
    \A t \in tasks :
        Done(t, "list_products")
        => /\ task[t].result.kind = "page"
           /\ ~task[t].result.value.raised
           /\ (task[t].resp.raises \/ task[t].resp.status # 200)
                => task[t].result.value = EmptyPage
           /\ (~task[t].resp.raises /\ task[t].resp.status = 200)
                => task[t].result.value.products =
                     VendorPage(vendor, listing, pageCap, task[t].limit, task[t].cursor)

C5_Witness ==
    \E t \in tasks :
        /\ Done(t, "list_products")
        /\ task[t].resp.status = 500
        /\ listing # <<>>
        /\ task[t].result.value = EmptyPage

\* the owner ids of a list: the second '_'-separated token of every reference
\* that contains the marker
MarkedOwners(products) ==
    { Split(products[i].reference.val, Underscore)[2] :
        i \in { j \in 1..Len(products) :
                  /\ products[j].reference.kind = "str"
                  /\ Contains(products[j].reference.val, Marker) } }

\* C6: get_design_stats() never fails on the materialized list, whatever the
\* references (missing, empty, null, unmarked), and reports total_designs = the
\* number of items and unique_users = the number of distinct owner ids.
C6_StatsCounts ==
    \A t \in tasks :
        (Done(t, "get_design_stats") /\ ~task[t].failed)
        => /\ task[t].result.kind = "stats"
           /\ task[t].result.value.total_designs = Len(task[t].all_products)
           /\ task[t].result.value.unique_users =
                Cardinality(MarkedOwners(task[t].all_products))

ScenarioListing ==
    <<[id |-> 1, reference |-> Str(Ref_123_456)],
      [id |-> 2, reference |-> Str(Ref_789_012)],
      [id |-> 3, reference |-> Str(Ref_123_789)]>>

\* C7: designs_per_user = total_designs / unique_users when unique_users > 0
\* and 0 when unique_users = 0; the three-item scenario gives 3, 2 and 1.5.
C7_DesignsPerUser ==
    \A t \in tasks :
        (Done(t, "get_design_stats") /\ task[t].result.kind = "stats")
        => LET st == task[t].result.value
           IN /\ st.designs_per_user.den > 0
              /\ st.unique_users > 0
                   => st.designs_per_user.num * st.unique_users
                        = st.total_designs * st.designs_per_user.den
              /\ st.unique_users = 0 => st.designs_per_user.num = 0
              /\ task[t].all_products = ScenarioListing
                   => /\ st.total_designs = 3
                      /\ st.unique_users = 2
                      /\ st.designs_per_user = [num |-> 3, den |-> 2]

C7_Witness ==
    \E t \in tasks :
        /\ Done(t, "get_design_stats")
        /\ task[t].result.kind = "stats"
        /\ task[t].all_products = ScenarioListing
        /\ task[t].result.value.designs_per_user = [num |-> 3, den |-> 2]

\* C8: latest_design is the first item of the first page the sweep fetched,
\* and is absent exactly when the sweep returned no designs.
C8_LatestIsFirstOfFirstPage ==
    \A t \in tasks :
        (Done(t, "get_design_stats") /\ task[t].result.kind = "stats")
        => LET latest == task[t].result.value.latest_design
           IN /\ latest.present <=> task[t].all_products # <<>>
              /\ latest.present => /\ task[t].first_page # <<>>
                                   /\ latest.item = task[t].first_page[1]

C8_Witness ==
    \E t \in tasks :
        /\ Done(t, "get_design_stats")
        /\ task[t].result.kind = "stats"
        /\ task[t].fetched >= 2
        /\ Len(task[t].all_products) > Limit
        /\ task[t].result.value.latest_design.present

\* C9: the totals of get_design_stats() do not depend on the page size the
\* vendor serves: they are those of the whole listing, at one item per page
\* as at a hundred.
C9_TotalsWhateverThePageSize ==
    \A t \in tasks :
        (/\ Done(t, "get_design_stats")
         /\ task[t].result.kind = "stats"
         /\ ~task[t].failed
         /\ shape # "nototal")
        => /\ task[t].result.value.total_designs = Len(listing)
           /\ task[t].result.value.unique_users = Cardinality(MarkedOwners(listing))

----------------------------------------------------------------------------
(* Properties of create_product *)

\* C1: the external reference of the product a successful create_product
\* returns contains the owner_id it was given.
C1_ReferenceContainsOwner ==
    \A t \in tasks :
        (Done(t, "create_product") /\ task[t].result.kind = "product")
        => /\ task[t].result.value.external_id.kind = "str"
           /\ Contains(task[t].result.value.external_id.val, task[t].user_id)

C1_Witness ==
    \E t \in tasks :
        /\ Done(t, "create_product")
        /\ task[t].result.kind = "product"
        /\ vendor = "printify"
        /\ task[t].user_id = U1234
        /\ Len(task[t].sent) = 4

\* the owner tag discord_<owner_id>_<hash>
IsOwnerTag(ref, owner_id) ==
    /\ ref.kind = "str"
    /\ StartsWith(ref.val, Marker \o owner_id \o Underscore)

\* C2: the creation request carries the owner tag in the vendor's reference
\* field, so every product created on the vendor's side carries a tag the
\* sweeps can read back.
C2_CreationCarriesOwnerTag ==
    /\ \A t \in tasks :
         \A i \in 1..Len(task[t].sent) :
            task[t].sent[i].kind = "create"
            => IsOwnerTag(task[t].sent[i].reference, task[t].user_id)
    /\ \A i \in 1..Len(listing) :
         \E u \in UserIds : IsOwnerTag(listing[i].reference, u)

----------------------------------------------------------------------------
(* Properties of the session *)

\* sessions that were created, are still open and are no longer held
Leaked(h) == { i \in 1..Len(h.log) : h.log[i] = "open" /\ i # h.session }

\* C10: over every interleaving of initialize() and of the operations that
\* initialize lazily, a session is created only when the client holds none,
\* the session held is never replaced by another, and creating a session
\* drops none.
C10_SessionCreatedOnlyWhenNone ==
    [][ /\ Len(http'.log) > Len(http.log) => http.session = NoSession
        /\ (http.session # NoSession /\ http'.session # NoSession)
             => http'.session = http.session
        /\ Len(http'.log) > Len(http.log) => Leaked(http') = Leaked(http) ]_vars

\* two operations in flight on the one session the first of them opened
C10_Witness ==
    /\ http.session = 1
    /\ Len(http.log) = 1
    /\ http.log[1] = "open"
    /\ \E t1, t2 \in tasks :
         /\ t1 # t2
         /\ task[t1].pc = "list" /\ task[t1].fetched = 1
         /\ task[t2].pc = "create"

\* C11: cleanup() on a client that holds no session (never initialized, or
\* cleaned up before) returns without error and changes nothing; cleanup() on
\* an initialized client closes the session it found and leaves the client
\* holding none.
C11_CleanupReleases ==
    [][ \A t \in tasks :
          /\ (task[t].pc = "idle" /\ task'[t].op = "cleanup" /\ task'[t].pc = "done")
               => /\ http.session = NoSession
                  /\ http' = http
                  /\ task'[t].result = CleanedUp
          /\ (task[t].pc = "idle" /\ task'[t].op = "cleanup" /\ http.session # NoSession)
               => /\ task'[t].pc = "closing"
                  /\ http'.log[http.session] = "closed"
          /\ (task[t].pc = "closing" /\ task'[t].pc = "done")
               => /\ task'[t].result = CleanedUp
                  /\ http'.session = NoSession
                  /\ http'.log[task[t].held] = "closed" ]_vars

\* a cleanup that closed the session has returned, and a second cleanup has
\* returned after it without a session to close
C11_Witness ==
    /\ http.session = NoSession
    /\ Len(http.log) = 1
    /\ http.log[1] = "closed"
    /\ \E t1, t2 \in tasks :
         /\ t1 # t2
         /\ Done(t1, "cleanup") /\ task[t1].held = 1
         /\ Done(t2, "cleanup") /\ task[t2].held = NoSession

\* C20: Printify's create_product called without a provider, when the vendor
\* reports no print provider for the blueprint, fails with an error that says
\* so and has sent neither the upload nor the creation request.
C20_NoProviderFailsBeforeUpload ==
    \A t \in tasks :
        (vendor = "printify" /\ task[t].op = "create_product"
         /\ task[t].providers = 0)
        => /\ task[t].pc = "done"
           /\ task[t].result = Raised("ValueError")
           /\ \A i \in 1..Len(task[t].sent) :
                 task[t].sent[i].kind \notin {"upload", "variants", "create"}

C20_Witness ==
    \E t \in tasks :
        /\ vendor = "printify"
        /\ Done(t, "create_product")
        /\ task[t].providers = 0
        /\ task[t].sent = <<Request("providers", Missing, Missing, Missing, Missing)>>

----------------------------------------------------------------------------
(* Properties of the orchestrator *)

\* process_tshirt_request has returned to its caller
Processed(t) == task[t].caller = "process_tshirt_request" /\ task[t].pc = "done"

\* how often a step was invoked
Invoked(t, step) ==
    Cardinality({ i \in 1..Len(task[t].steps) : task[t].steps[i] = step })

\* a failure result whose error text contains the text
FailureWith(result, text) ==
    /\ result.kind = "tshirt"
    /\ ~result.value.success
    /\ result.value.error_message.kind = "str"
    /\ Contains(result.value.error_message.val, text)
    /\ result.value.product_url = NoUrl

\* C13: when intent extraction returns nothing usable, process_tshirt_request
\* stops at once: no image generation, no create_product, and the result has
\* success = False, error text 'Failed to parse message' and no product_url.
C13_ParseFailureStops ==
    \A t \in tasks :
        (Processed(t) /\ task[t].parsed = "none")
        => /\ Invoked(t, "generate_design") = 0
           /\ Invoked(t, "create_product") = 0
           /\ task[t].sent = <<>>
           /\ FailureWith(task[t].result, FailedToParse)
           /\ task[t].result.value.error_message = Str(FailedToParse)

C13_Witness ==
    \E t \in tasks :
        /\ Processed(t)
        /\ task[t].parsed = "none"
        /\ task[t].steps = <<"parse_message">>

\* C14: when image generation fails with message T, create_product is never
\* invoked and the result has success = False, error text containing T and no
\* product_url.
C14_GenerationFailureStops ==
    \A t \in tasks :
        (Processed(t) /\ task[t].generated = "raises")
        => /\ Invoked(t, "create_product") = 0
           /\ task[t].sent = <<>>
           /\ FailureWith(task[t].result, <<"d", "i", "s", "k">>)

C14_Witness ==
    \E t \in tasks :
        /\ Processed(t)
        /\ task[t].generated = "raises"
        /\ task[t].phrase = LongPhrase

\* the texts of the failures of create_product
C15_Texts ==
    [ClientResponseError |-> <<"5", "0", "0">>,
     RuntimeError |-> <<"c", "l", "o", "s", "e", "d">>,
     AttributeError |-> <<"N", "o", "n", "e">>]

\* C15: when create_product fails with exception text T, the result has
\* success = False, error text containing T and no product_url, and
\* create_product was invoked once for the request: no retry.
C15_VendorFailureReported ==
    \A t \in tasks :
        (/\ Processed(t)
         /\ Invoked(t, "create_product") > 0
         /\ task[t].inner.kind = "raised")
        => /\ task[t].inner.value \in DOMAIN C15_Texts
           /\ FailureWith(task[t].result, C15_Texts[task[t].inner.value])
           /\ Invoked(t, "create_product") = 1
           /\ Cardinality({ i \in 1..Len(task[t].sent) :
                              task[t].sent[i].kind = "create" }) <= 1
           /\ Cardinality({ i \in 1..Len(task[t].sent) :
                              task[t].sent[i].kind = "upload" }) <= 1

\* the creation request of the order failed, after the upload
C15_Witness ==
    \E t \in tasks :
        /\ Processed(t)
        /\ task[t].inner = Raised("ClientResponseError")
        /\ Len(task[t].sent) = 2
        /\ task[t].sent[2].kind = "create"

\* C16: process_tshirt_request returns a result record whatever step failed:
\* no exception escapes from it.
C16_NothingEscapes ==
    \A t \in tasks :
        Processed(t)
        => /\ task[t].result.kind = "tshirt"
           /\ task[t].result.value.success \in BOOLEAN

\* the upload failed and the caller has its result record
C16_Witness ==
    \E t \in tasks :
        /\ Processed(t)
        /\ task[t].inner = Raised("ClientResponseError")
        /\ Len(task[t].sent) = 1
        /\ task[t].result.kind = "tshirt"

\* the phrases of RESPONSE_PHRASES
ResponsePhrases == { RESPONSE_PHRASES[i] : i \in DOMAIN RESPONSE_PHRASES }

\* C17: in every result, success = True implies product_url present, error
\* text absent, phrase = the extracted phrase and response phrase in
\* RESPONSE_PHRASES; success = False implies product_url absent and error text
\* present.
C17_ResultShape ==
    \A t \in tasks :
        (Processed(t) /\ task[t].result.kind = "tshirt")
        => LET r == task[t].result.value
           IN /\ r.success
                   => /\ r.product_url.kind \in {"vendor", "synthesized"}
                      /\ r.error_message = Null
                      /\ r.phrase = Str(task[t].phrase)
                      /\ r.response_phrase \in ResponsePhrases
              /\ ~r.success
                   => /\ r.product_url = NoUrl
                      /\ r.error_message.kind = "str"

\* a success for a phrase longer than the cut of the product name
C17_Witness ==
    \E t \in tasks :
        /\ Processed(t)
        /\ task[t].result.kind = "tshirt"
        /\ task[t].result.value.success
        /\ task[t].phrase = LongPhrase
        /\ task[t].result.value.response_phrase = RESPONSE_PHRASES[10]

\* C18: get_user_designs, get_all_designs and get_design_statistics never
\* raise: when the client's operation raises they return [], [] and the
\* all-zero statistics; otherwise the client's result unchanged.
C18_QueriesNeverRaise ==
    \A t \in tasks :
        (task[t].caller \in Queries /\ task[t].pc = "done")
        => /\ task[t].result.kind # "raised"
           /\ task[t].inner.kind = "raised"
                => task[t].result =
                     IF task[t].caller = "get_design_statistics"
                     THEN [kind |-> "stats",
                           value |-> [total_designs |-> 0, unique_users |-> 0,
                                      designs_per_user |-> [num |-> 0, den |-> 1],
                                      latest_design |-> [present |-> FALSE,
                                                         item |-> NoDesign]]]
                     ELSE [kind |-> "list", value |-> <<>>]
           /\ task[t].inner.kind # "raised" => task[t].result = task[t].inner

\* get_user_designs over a listing whose total is null: the client raised
C18_Witness ==
    \E t \in tasks :
        /\ task[t].caller = "get_user_designs"
        /\ task[t].pc = "done"
        /\ task[t].inner = Raised("TypeError")
        /\ task[t].result = [kind |-> "list", value |-> <<>>]

----------------------------------------------------------------------------
(* Properties of main *)

\* C12: when main() ends, close() has been called, it has called the
\* orchestrator's cleanup(), and the client holds no open session, whatever
\* happened before.
C12_MainEndsWithoutSession ==
    \A t \in tasks :
        (IsMain(t) /\ task[t].pc = "done" /\ task[t].result = MainReturned)
        => /\ Invoked(t, "close") = 1
           /\ Invoked(t, "cleanup") = 1
           /\ http.session = NoSession
           /\ \A i \in 1..Len(http.log) : http.log[i] = "closed"

\* C19: a failure of the session's close() inside cleanup() is swallowed:
\* close() still completes its own shutdown and nothing propagates out of
\* close() or main().
C19_CleanupFailureSwallowed ==
    \A t \in tasks :
        (IsMain(t) /\ task[t].pc = "done")
        => /\ task[t].result.kind # "raised"
           /\ Invoked(t, "super_close") = 1

----------------------------------------------------------------------------
(* Properties of create_product *)

\* the requests that change the vendor's state
Mutating == {"upload", "create"}

\* C21: a create_product that ends with the configuration error (no print
\* providers for the blueprint, no variants for the blueprint and provider)
\* has sent neither the upload nor the creation request.
C21_ConfigErrorBeforeMutation ==
    \A t \in tasks :
        (Done(t, "create_product") /\ task[t].result = Raised("ValueError"))
        => \A i \in 1..Len(task[t].sent) : task[t].sent[i].kind \notin Mutating

\* the sub-steps of create_product that send a request, in the order of the code
Order(v) ==
    CASE v = "teemill" -> <<"upload", "create">>
      [] v = "printful" -> <<"upload", "create">>
      [] v = "printify" -> <<"providers", "upload", "variants", "create">>
      [] v = "prodigi" -> <<"create">>

\* the place of a request of kind k in the order, 0 if it has none
Place(v, k) ==
    IF \E i \in DOMAIN Order(v) : Order(v)[i] = k
    THEN CHOOSE i \in DOMAIN Order(v) : Order(v)[i] = k
    ELSE 0

\* the errors a sub-step raises: a failure status, a field missing from the
\* answer, an empty catalog
SubStepErrors(k) ==
    CASE k \in {"providers", "variants"} -> {"ClientResponseError", "ValueError"}
      [] k \in {"upload", "create"} -> {"ClientResponseError", "KeyError"}

\* C22: create_product sends the requests of its sub-steps in the order of
\* the code, each at most once (no retry, no request that undoes an earlier
\* one); the step in which it fails sends nothing, nothing is sent after it,
\* and the error it ends with is the error of the sub-step that sent the
\* last request.
C22_FixedOrderFailFast ==
    /\ [](\A t \in tasks :
            task[t].op = "create_product"
            => /\ \A i \in 1..Len(task[t].sent) :
                     Place(vendor, task[t].sent[i].kind) > 0
               /\ \A i, j \in 1..Len(task[t].sent) :
                     i < j => Place(vendor, task[t].sent[i].kind)
                              < Place(vendor, task[t].sent[j].kind)
               /\ (task[t].pc = "done" /\ task[t].result.kind = "raised")
                  => /\ task[t].sent # <<>>
                     /\ task[t].result.value
                          \in SubStepErrors(task[t].sent[Len(task[t].sent)].kind))
    /\ [][\A t \in tasks :
            /\ (task[t].pc # "done" /\ task'[t].op = "create_product"
                /\ task'[t].pc = "done" /\ task'[t].result.kind = "raised")
               => task'[t].sent = task[t].sent
            /\ (task[t].op = "create_product" /\ task[t].pc = "done"
                /\ task'[t].op = "create_product")
               => task'[t] = task[t]]_vars

\* an upload that failed after the catalog query: nothing but the two requests
C22_Witness ==
    \E t \in tasks :
        /\ vendor = "printify"
        /\ Done(t, "create_product")
        /\ task[t].result = Raised("ClientResponseError")
        /\ Len(task[t].sent) = 2
        /\ task[t].sent[1].kind = "providers"
        /\ task[t].sent[2].kind = "upload"

\* C23: the product a successful create_product returns carries a public
\* URL: the vendor's when the creation answer has one, otherwise one
\* synthesized from the primary key of the product.
C23_ProductCarriesPublicUrl ==
    \A t \in tasks :
        (Done(t, "create_product") /\ task[t].result.kind = "product")
        => LET product == task[t].result.value
           IN \/ product.product_url.kind = "vendor"
              \/ /\ product.product_url.kind = "synthesized"
                 /\ product.product_url.key = product.key

\* the upload requests among those a coroutine has sent
Uploads(t) == { i \in 1..Len(task[t].sent) : task[t].sent[i].kind = "upload" }

\* the creation requests among those a coroutine has sent
Creations(t) == { i \in 1..Len(task[t].sent) : task[t].sent[i].kind = "create" }

\* C24: create_product submits an image that starts with "http" by reference
\* and any other image inline, never both: Teemill and Prodigi send no upload
\* for a URL (the creation request names it) and Prodigi none at all;
\* Teemill's upload carries the inline image; Printful's upload carries the
\* image as url with a null file, or as file with a null url; Printify's
\* carries either url, or contents without the text up to "base64,".
C24_ImageByReferenceOrInline ==
    \A t \in tasks :
        (task[t].op = "create_product" /\ task[t].sent # <<>>)
        => LET image == task[t].design_image
               byUrl == image = ImageUrl
               sent == task[t].sent
           IN /\ (vendor = "prodigi" \/ (vendor = "teemill" /\ byUrl))
                 => /\ Uploads(t) = {}
                    /\ \A i \in Creations(t) : sent[i].image = Str(image)
              /\ (vendor = "teemill" /\ ~byUrl)
                 => /\ sent[1].kind = "upload"
                    /\ sent[1].file = Str(image)
                    /\ sent[1].url = Missing
                    /\ \A i \in Creations(t) : sent[i].image # Str(image)
              /\ vendor = "printful"
                 => /\ sent[1].kind = "upload"
                    /\ sent[1].url = (IF byUrl THEN Str(image) ELSE Null)
                    /\ sent[1].file = (IF byUrl THEN Null ELSE Str(image))
              /\ vendor = "printify"
                 => \A i \in Uploads(t) :
                       /\ sent[i].url = (IF byUrl THEN Str(image) ELSE Missing)
                       /\ sent[i].file = (IF byUrl THEN Missing ELSE Str(<<"Q", "U">>))

\* Printify was sent the contents of a data URL, without its prefix
C24_Witness ==
    \E t \in tasks :
        /\ vendor = "printify"
        /\ task[t].op = "create_product"
        /\ task[t].design_image = ImageDataUrl
        /\ \E i \in Uploads(t) : task[t].sent[i].file = Str(ImageBase64)

----------------------------------------------------------------------------
(* Properties of the sweeps over created products *)

\* C25: every item search_products_by_user(user_id) returns was created by a
\* create_product call with that user_id, whatever the user ids in the store
\* (one of them may be a substring of another).
C25_SearchReturnsOnlyOwn ==
    \A t \in tasks :
        (Done(t, "search_products_by_user") /\ task[t].result.kind = "list")
        => \A i \in 1..Len(task[t].result.value) :
               task[t].result.value[i].creator = task[t].user_id

----------------------------------------------------------------------------
(* Properties of the sweeps when a listing call fails *)

\* the cursor of the j-th listing call of a sweep
CursorAt(v, j) == IF v = "printify" THEN j ELSE (j - 1) * Limit

\* what the vendor serves for the first n listing calls of a sweep
RECURSIVE ServedUpTo(_)
ServedUpTo(n) ==
    IF n = 0 THEN <<>>
    ELSE ServedUpTo(n - 1)
         \o VendorPage(vendor, listing, pageCap, Limit, CursorAt(vendor, n))

\* C26: when the k-th listing call of a sweep fails, search_products_by_user
\* and get_all_designs do not raise and return what pages 1..k-1 gave (the
\* items with the owner in their reference for the search), nothing when
\* k = 1; get_design_stats counts that truncated list, and its result has
\* nothing that tells the failure from the end of the listing.
C26_FailedPageTruncates ==
    \A t \in tasks :
        (task[t].op \in Sweeps /\ task[t].pc = "done" /\ task[t].failed)
        => LET got == ServedUpTo(task[t].fetched - 1)
               own == SelectSeq(got, LAMBDA p : RefContains(p, task[t].user_id))
               r == task[t].result
           IN /\ task[t].op = "get_all_designs"
                 => r = [kind |-> "list", value |-> got]
              /\ task[t].op = "search_products_by_user"
                 => r = [kind |-> "list", value |-> own]
              /\ (task[t].op = "get_design_stats" /\ r.kind # "raised")
                 => /\ r.kind = "stats"
                    /\ r.value.total_designs = Len(got)
                    /\ DOMAIN r.value = {"total_designs", "unique_users",
                                          "designs_per_user", "latest_design"}

\* the second listing call failed after a full first page
C26_Witness ==
    \E t \in tasks :
        /\ Done(t, "get_all_designs")
        /\ task[t].failed
        /\ task[t].fetched = 2
        /\ Len(task[t].result.value) = Limit
        /\ Len(listing) > Limit

----------------------------------------------------------------------------
(* Termination of the sweeps *)

\* the vendor's answer says there are more pages after the one at cursor
MorePages(resp, cursor) ==
    CASE vendor = "teemill" ->
            cursor + Limit < (IF resp.has_total THEN resp.total ELSE Len(resp.items))
      [] vendor = "printful" -> resp.next
      [] vendor \in {"printify", "prodigi"} -> Len(resp.items) >= Limit

\* C27: a sweep whose listing calls are answered terminates; each iteration
\* that goes on asks for the next page (offset + limit, or page + 1) after a
\* page that was not empty and said there were more, and the first empty page
\* or the first answer saying there are no more ends the loop.
C27_SweepTerminates ==
    /\ [][\A t \in tasks :
            (task[t].pc = "list" /\ task[t].op \in Sweeps /\ task'[t] # task[t])
            => LET resp == task'[t].resp
               IN /\ task'[t].pc \in {"list", "done"}
                  /\ task'[t].pc = "list"
                     => /\ task'[t].cursor
                             = task[t].cursor + (IF vendor = "printify" THEN 1 ELSE Limit)
                        /\ resp.items # <<>>
                        /\ MorePages(resp, task[t].cursor)
                  /\ (resp.items = <<>> \/ ~MorePages(resp, task[t].cursor))
                     => task'[t].pc = "done"]_vars
    /\ \A t \in TaskIds :
          (task[t].pc = "list" /\ task[t].op \in Sweeps) ~> (task[t].pc = "done")

\* a sweep that ended after three pages, none of which failed
C27_Witness ==
    \E t \in tasks :
        /\ task[t].op \in Sweeps
        /\ task[t].pc = "done"
        /\ ~task[t].failed
        /\ task[t].fetched = 3

----------------------------------------------------------------------------
(* Properties of the session under cleanup *)

\* the positions at which a coroutine waits for the answer to a request
InFlight == {"list", "providers", "upload", "variants", "create", "info"}

\* C28: however the operations and cleanup() interleave on one client, no
\* request is attempted without a session or on a closed one (no call ends
\* with the error of such an attempt), and while a request is in flight the
\* client's session is neither closed nor removed.
C28_NoRequestWithoutSession ==
    \A t \in tasks :
        /\ task[t].result \notin {Raised("AttributeError"), Raised("RuntimeError")}
        /\ task[t].pc \in InFlight => Usable(http)

----------------------------------------------------------------------------
(* Frame of the sweeps *)

\* C29: a step of search_products_by_user, get_all_designs or
\* get_design_stats leaves the vendor's products as they are, the sweep has
\* sent nothing but listing requests, and its first request asks for the
\* first page (offset 0, for Printify page 1) with nothing accumulated,
\* whatever calls came before.
C29_SweepsOnlyRead ==
    [][\A t \in tasks :
          (task'[t].op \in Sweeps /\ task'[t] # task[t])
          => /\ listing' = listing
             /\ \A i \in 1..Len(task'[t].sent) : task'[t].sent[i].kind = "list"
             /\ task[t].pc = "idle"
                => /\ task'[t].sent
                        = <<[kind |-> "list",
                             cursor |-> IF vendor = "printify" THEN 1 ELSE 0]>>
                   /\ task'[t].all_products = <<>>]_vars

\* a sweep under way over a store that holds products, after an earlier
\* get_all_designs has returned
C29_Witness ==
    \E t \in tasks :
        /\ allDesigns.known
        /\ listing # <<>>
        /\ task[t].op \in Sweeps
        /\ task[t].pc = "list"

----------------------------------------------------------------------------
(* Round trip of the owner tag *)

\* the creators of the products of a list
Creators(products) == { products[i].creator : i \in 1..Len(products) }

\* C30: what get_design_stats extracts from the reference create_product
\* built for owner_id and a product name is owner_id, for every owner_id;
\* and unique_users of a get_design_stats with no failed listing call is the
\* number of distinct owner ids that created the listed products.
C30_OwnerTagRoundTrip ==
    \A t \in tasks :
        /\ \A i \in 1..Len(task[t].sent) :
              (task[t].sent[i].kind = "create"
               /\ task[t].sent[i].reference.kind = "str")
              => OwnerIds(<<[id |-> 1, reference |-> task[t].sent[i].reference]>>)
                   = {task[t].user_id}
        /\ (Done(t, "get_design_stats") /\ ~task[t].failed)
           => /\ task[t].result.kind = "stats"
              /\ task[t].result.value.unique_users
                   = Cardinality(Creators(task[t].all_products))

====
